---------------------------- MODULE Spec2Model ----------------------------
(***************************************************************************)
(* Model of the api-service (src/src/app.ts): an Express application with  *)
(* a request-instrumentation middleware that monkey-patches res.send, a    *)
(* prom-client registry (duration histogram + request counter), a winston  *)
(* logger with a console sink and a remote Loki sink, and three route      *)
(* handlers (/api/data, /health, /metrics).                                *)
(*                                                                         *)
(* Node runs one callback at a time (run to completion).  `running` is the *)
(* request whose callback is on the stack; while it is non-zero the only   *)
(* enabled program step is the next statement of that callback.  The body  *)
(* of the patched res.send is modelled statement by statement so that the  *)
(* order of its effects is part of the state.                              *)
(***************************************************************************)
EXTENDS Naturals, Sequences, FiniteSets

(* ------------------------------ bounds -------------------------------- *)
\* requests the model lets arrive
MaxReq == 2
\* clock ticks the model follows
MaxTime == 1

(* ------------------------- program constants --------------------------- *)
\* Math.random() * 500: upper bound of the simulated delay, in ms
MaxDelayMs == 500
\* Math.floor(Math.random() * 100): the value is in 0 .. ValueRange - 1
ValueRange == 100
\* res.statusCode of a response whose handler never sets a status
DefaultStatus == 200
\* one clock tick of the model, in ms: delays of 0..249 ms expire within
\* the tick they were set in, delays of 250..499 ms one tick later
TickMs == MaxDelayMs \div 2

\* the requests are plain GETs of the three routes, without conditional headers
Methods == {"GET"}
Paths == {"/api/data", "/health", "/metrics"}
\* the label sets of both metrics: method, route, status_code
LabelNames == [method : Methods, route : Paths, status_code : {DefaultStatus}]

\* delays in ticks a timer can be set to
Delays == 0 .. ((MaxDelayMs - 1) \div TickMs)
\* the value the model draws for Math.floor(Math.random() * 100): the largest
Values == {ValueRange - 1}

NoBody == <<"none">>
\* the value a call that has not returned has produced
NoRet == <<>>

VARIABLES
  now,        \* the clock, in ticks
  reqs,       \* the requests received so far: req, res and handler position
  running,    \* the request whose callback is executing, 0 when the loop is idle
  histogram,  \* http_request_duration_seconds: per label set, count and sum
  counter,    \* http_requests_total: per label set, value
  console,    \* the console sink: the log records written, in order
  lokiUp,     \* whether the remote log sink is reachable
  lokiBatch,  \* records handed to the Loki transport and not yet pushed
  wire        \* what clients have received, in order: <<request, status, body>>

vars == <<now, reqs, running, histogram, counter, console, lokiUp, lokiBatch,
          wire>>

registryVars == <<histogram, counter>>
loggerVars == <<console, lokiBatch>>
sinkVars == <<lokiUp>>

(* ------------------------------ helpers -------------------------------- *)
RECURSIVE SumOver(_, _)
SumOver(f, S) ==
  IF S = {} THEN 0
  ELSE LET x == CHOOSE y \in S : TRUE IN f[x] + SumOver(f, S \ {x})

Ids == 1 .. Len(reqs)

\* JSON.stringify as res.json applies it: the body sent is the text, not the object
Stringify(obj) == <<"json", obj>>

\* the label values the patched send reads at the time it runs
LabelsOf(r) ==
  [method |-> reqs[r].method, route |-> reqs[r].path, status_code |-> reqs[r].statusCode]

Idle == running = 0

(* ------------------------------- Init ---------------------------------- *)
ListenRecord == [message |-> "API service listening on port 3000"]

Init ==
  /\ now = 0
  /\ reqs = <<>>
  /\ running = 0
  /\ histogram = [l \in LabelNames |-> [count |-> 0, sum |-> 0]]
  /\ counter = [l \in LabelNames |-> 0]
  /\ console = <<ListenRecord>>
  /\ lokiUp \in BOOLEAN
  /\ lokiBatch = 1
  /\ wire = <<>>

(* --------------------------- middleware -------------------------------- *)
\* The state of a request after the middleware ran: the timer is started,
\* res.send is patched, next() hands over to the route handler.
Middleware(method, path) ==
  [method |-> method, path |-> path, statusCode |-> DefaultStatus,
   start |-> now, pc |-> "next", delay |-> 0,
   arg |-> NoBody, responseTime |-> 0, ret |-> NoRet]

(* ------------------------------ handlers ------------------------------- *)
\* variant: the health payload reports load while requests are waiting
HealthPayloadByLoad ==
  [status |-> IF \E q \in Ids : reqs[q].pc = "timer" THEN "busy" ELSE "ok"]

\* the payload of GET /health
HealthPayload == [status |-> "ok"]

\* the payload of GET /api/data, built when the timer fires
DataPayload(v) == [value |-> v, timestamp |-> now]

\* register.metrics(): the text exposition of the registry's current state
Exposition == <<"text", histogram, counter>>

\* res.json(obj) of request record q: the body is serialised and handed to
\* res.send, which is the patched function; control is inside it next.
ResJson(q, obj) == [q EXCEPT !.arg = Stringify(obj), !.pc = "send"]

\* variant: the handler waits for the delay synchronously, keeping the thread
ApiDataBusyWait(method) ==
  /\ Idle
  /\ Len(reqs) < MaxReq
  /\ \E d \in Delays :
       /\ now + d <= MaxTime
       /\ reqs' = Append(reqs, [Middleware(method, "/api/data") EXCEPT
                                  !.pc = "timer", !.delay = d])
  /\ running' = Len(reqs) + 1
  /\ UNCHANGED <<now, registryVars, loggerVars, sinkVars, wire>>

\* variant: the request is counted when it arrives as well
ApiDataCountsOnArrival(method) ==
  /\ Idle
  /\ Len(reqs) < MaxReq
  /\ \E d \in Delays :
       /\ now + d <= MaxTime
       /\ reqs' = Append(reqs, [Middleware(method, "/api/data") EXCEPT
                                  !.pc = "timer", !.delay = d])
  /\ counter' = [counter EXCEPT
                   ![[method |-> method, route |-> "/api/data",
                      status_code |-> DefaultStatus]] = @ + 1]
  /\ UNCHANGED <<now, running, histogram, loggerVars, sinkVars, wire>>

\* A request for /api/data arrives: middleware, then the handler draws a
\* delay, sets the timer and returns to the event loop.
ApiData(method) ==
  /\ Idle
  /\ Len(reqs) < MaxReq
  /\ \E d \in Delays :
       /\ now + d <= MaxTime
       /\ reqs' = Append(reqs, [Middleware(method, "/api/data") EXCEPT
                                  !.pc = "timer", !.delay = d])
  /\ UNCHANGED <<now, running, registryVars, loggerVars, sinkVars, wire>>

\* The timer of request r expires: the callback builds the payload and
\* calls res.json.
DataTimerFire(r) ==
  /\ Idle
  /\ reqs[r].pc = "timer"
  /\ now >= reqs[r].start + reqs[r].delay
  /\ \E v \in Values :
       reqs' = [reqs EXCEPT ![r] = ResJson(reqs[r], DataPayload(v))]
  /\ running' = r
  /\ UNCHANGED <<now, registryVars, loggerVars, sinkVars, wire>>

\* A request for /health arrives: middleware, then the handler calls
\* res.json in the same callback.
Health(method) ==
  /\ Idle
  /\ Len(reqs) < MaxReq
  /\ reqs' = Append(reqs, ResJson(Middleware(method, "/health"), HealthPayload))
  /\ running' = Len(reqs) + 1
  /\ UNCHANGED <<now, registryVars, loggerVars, sinkVars, wire>>

\* A request for /metrics arrives: middleware, then the handler sets the
\* content type and awaits register.metrics().
Metrics(method) ==
  /\ Idle
  /\ Len(reqs) < MaxReq
  /\ reqs' = Append(reqs, [Middleware(method, "/metrics") EXCEPT !.pc = "await"])
  /\ UNCHANGED <<now, running, registryVars, loggerVars, sinkVars, wire>>

\* The awaited exposition is ready: the handler passes it to res.end, which
\* is not the patched function.
MetricsResume(r) ==
  /\ Idle
  /\ reqs[r].pc = "await"
  /\ wire' = Append(wire, [id |-> r, kind |-> "response",
                           status |-> reqs[r].statusCode, body |-> Exposition])
  /\ reqs' = [reqs EXCEPT ![r].pc = "done"]
  /\ UNCHANGED <<now, running, registryVars, loggerVars, sinkVars>>

(* ------------------------- the patched res.send ------------------------ *)
\* variant: the body is serialised once more on its way to the original send
SendOriginalReserialised(r) ==
  /\ running = r
  /\ reqs[r].pc = "send"
  /\ wire' = Append(wire, [id |-> r, kind |-> "response",
                           status |-> reqs[r].statusCode,
                           body |-> Stringify(reqs[r].arg)])
  /\ reqs' = [reqs EXCEPT ![r].pc = "end"]
  /\ UNCHANGED <<now, running, registryVars, loggerVars, sinkVars>>

\* originalSend.call(this, body): the response goes out to the client
SendOriginal(r) ==
  /\ running = r
  /\ reqs[r].pc = "send"
  /\ wire' = Append(wire, [id |-> r, kind |-> "response",
                           status |-> reqs[r].statusCode, body |-> reqs[r].arg])
  /\ reqs' = [reqs EXCEPT ![r].pc = "end"]
  /\ UNCHANGED <<now, running, registryVars, loggerVars, sinkVars>>

\* variant: the elapsed time is computed but the observation is left for later
SendEndDeferred(r) ==
  /\ running = r
  /\ reqs[r].pc = "end"
  /\ reqs' = [reqs EXCEPT ![r].responseTime = now - reqs[r].start, ![r].pc = "log"]
  /\ UNCHANGED <<now, running, registryVars, loggerVars, sinkVars, wire>>

\* const responseTime = end(labels): the elapsed time since startTimer is
\* computed and observed by the histogram under the labels
SendEnd(r) ==
  /\ running = r
  /\ reqs[r].pc = "end"
  /\ LET elapsed == now - reqs[r].start
         l == LabelsOf(r)
     IN /\ histogram' = [histogram EXCEPT ![l] =
                           [count |-> @.count + 1, sum |-> @.sum + elapsed]]
        /\ reqs' = [reqs EXCEPT ![r].responseTime = elapsed, ![r].pc = "log"]
  /\ UNCHANGED <<now, running, counter, loggerVars, sinkVars, wire>>

\* the record logger.info builds; responseTime is in ticks
LogRecord(r) ==
  [message |-> "Request processed", method |-> reqs[r].method,
   path |-> reqs[r].path, statusCode |-> reqs[r].statusCode,
   responseTimeMs |-> reqs[r].responseTime * TickMs]

\* variant: logger.info throws when the remote sink is unreachable; the
\* exception leaves the patched send and the handler, and the framework,
\* finding the headers sent, destroys the connection
SendLoggerInfoThrowing(r) ==
  /\ running = r
  /\ reqs[r].pc = "log"
  /\ IF lokiUp
       THEN /\ console' = Append(console, LogRecord(r))
            /\ lokiBatch' = lokiBatch + 1
            /\ reqs' = [reqs EXCEPT ![r].pc = "inc"]
            /\ UNCHANGED <<running, wire>>
       ELSE /\ wire' = Append(wire, [id |-> r, kind |-> "reset",
                                     status |-> 0, body |-> NoBody])
            /\ reqs' = [reqs EXCEPT ![r].pc = "done"]
            /\ running' = 0
            /\ UNCHANGED loggerVars
  /\ UNCHANGED <<now, registryVars, sinkVars>>

\* logger.info(...): the record is written to the console and handed to the
\* Loki transport, which batches it; the call returns whatever the state of
\* the remote sink
SendLoggerInfo(r) ==
  /\ running = r
  /\ reqs[r].pc = "log"
  /\ console' = Append(console, LogRecord(r))
  /\ lokiBatch' = lokiBatch + 1
  /\ reqs' = [reqs EXCEPT ![r].pc = "inc"]
  /\ UNCHANGED <<now, running, registryVars, sinkVars, wire>>

\* variant: the increment is lost while another request is waiting
SendCounterIncLostUpdate(r) ==
  /\ running = r
  /\ reqs[r].pc = "inc"
  /\ counter' = [counter EXCEPT ![LabelsOf(r)] =
                   IF \E q \in Ids : reqs[q].pc = "timer" THEN @ ELSE @ + 1]
  /\ reqs' = [reqs EXCEPT ![r].pc = "return"]
  /\ UNCHANGED <<now, running, histogram, loggerVars, sinkVars, wire>>

\* httpRequestCounter.inc(labels)
SendCounterInc(r) ==
  /\ running = r
  /\ reqs[r].pc = "inc"
  /\ counter' = [counter EXCEPT ![LabelsOf(r)] = @ + 1]
  /\ reqs' = [reqs EXCEPT ![r].pc = "return"]
  /\ UNCHANGED <<now, running, histogram, loggerVars, sinkVars, wire>>

\* return this: the patched send, res.json and the callback return
SendReturn(r) ==
  /\ running = r
  /\ reqs[r].pc = "return"
  /\ reqs' = [reqs EXCEPT ![r].ret = <<r>>, ![r].pc = "done"]
  /\ running' = 0
  /\ UNCHANGED <<now, registryVars, loggerVars, sinkVars, wire>>

(* ----------------------------- environment ----------------------------- *)
\* Time passes, between callbacks: a callback takes less than a tick.
Tick ==
  /\ Idle
  /\ now < MaxTime
  /\ now' = now + 1
  /\ UNCHANGED <<reqs, running, registryVars, loggerVars, sinkVars, wire>>

\* the remote log sink becomes unreachable, or reachable again
LokiToggle ==
  /\ lokiUp' = ~lokiUp
  /\ UNCHANGED <<now, reqs, running, registryVars, loggerVars, wire>>

\* The Loki transport pushes its batch from a callback of its own.  When the
\* sink is unreachable the push fails, onConnectionError writes the error to
\* stderr (which the model does not keep) and the batch is not retried.
LokiPush ==
  /\ Idle
  /\ lokiBatch > 0
  /\ lokiBatch' = 0
  /\ UNCHANGED <<now, reqs, running, registryVars, console, lokiUp, wire>>

(* -------------------------------- Next --------------------------------- *)
Next ==
  \/ \E m \in Methods : ApiData(m)
  \/ \E m \in Methods : Health(m)
  \/ \E m \in Methods : Metrics(m)
  \/ \E r \in Ids : DataTimerFire(r)
  \/ \E r \in Ids : MetricsResume(r)
  \/ \E r \in Ids : SendOriginal(r)
  \/ \E r \in Ids : SendEnd(r)
  \/ \E r \in Ids : SendLoggerInfo(r)
  \/ \E r \in Ids : SendCounterInc(r)
  \/ \E r \in Ids : SendReturn(r)
  \/ Tick
  \/ LokiToggle
  \/ LokiPush

Spec == Init /\ [][Next]_vars

\* the next statement of the patched send that request r is executing
SendStep(r) ==
  \/ SendOriginal(r)
  \/ SendEnd(r)
  \/ SendLoggerInfo(r)
  \/ SendCounterInc(r)
  \/ SendReturn(r)

\* The callback on the stack runs on, the event loop runs every callback that
\* is ready, and time passes.
Fairness ==
  /\ WF_vars(Tick)
  /\ WF_vars(\E r \in Ids : SendStep(r))
  /\ \A r \in 1 .. MaxReq :
       /\ WF_vars(r \in Ids /\ DataTimerFire(r))
       /\ WF_vars(r \in Ids /\ MetricsResume(r))

FairSpec == Spec /\ Fairness

(* ------------------------- observation helpers ------------------------- *)
\* positions inside the patched res.send
SendPcs == {"send", "end", "log", "inc", "return"}

\* the position of request r, "absent" while it has not arrived
Pc(r) == IF r \in Ids THEN reqs[r].pc ELSE "absent"

\* the path of request r
Path(r) == IF r \in Ids THEN reqs[r].path ELSE "absent"

Done(r) == Pc(r) = "done"

\* the patched send of request r has been entered
SendInvoked(r) == reqs[r].pc \in SendPcs \/ (Done(r) /\ reqs[r].ret # NoRet)

\* the patched send of request r has passed originalSend.call
OriginalCalled(r) ==
  reqs[r].pc \in {"end", "log", "inc", "return"} \/ (Done(r) /\ reqs[r].ret # NoRet)

\* what the client of request r has received
Responses(r) == SelectSeq(wire, LAMBDA w : w.id = r)

\* completed requests whose (method, path, status) is l
Completed(l) == Cardinality({r \in Ids : Done(r) /\ LabelsOf(r) = l})

\* requests with (method, path, status) l whose patched send has been entered
Finalized(l) == Cardinality({r \in Ids : SendInvoked(r) /\ LabelsOf(r) = l})

IsRequestLog(rec) == rec.message = "Request processed"

\* "Request processed" records on the console that carry the values of l
LogCount(l) ==
  Cardinality({i \in 1 .. Len(console) :
                 /\ IsRequestLog(console[i])
                 /\ console[i].method = l.method
                 /\ console[i].path = l.route
                 /\ console[i].statusCode = l.status_code})

TotalObserved == SumOver([l \in LabelNames |-> histogram[l].count], LabelNames)
TotalCounted == SumOver(counter, LabelNames)
TotalLogged == Cardinality({i \in 1 .. Len(console) : IsRequestLog(console[i])})
TotalSent == Cardinality({r \in Ids : OriginalCalled(r)})

DataLabel == [method |-> "GET", route |-> "/api/data", status_code |-> DefaultStatus]

(* ------------------------------- claims -------------------------------- *)

\* C1: whenever no callback is running, every label triple has exactly one
\* histogram observation, one counter increment and one "Request processed"
\* record for each completed request with that method, path and status,
\* whichever of the three endpoints the request was for.
C1_OneSamplePairAndRecordPerRequest ==
  Idle =>
    \A l \in LabelNames :
      /\ histogram[l].count = Completed(l)
      /\ counter[l] = Completed(l)
      /\ LogCount(l) = Completed(l)

\* C2: http_requests_total starts at 0 for every label triple, and whenever
\* no callback is running its value for a triple is the number of completed
\* requests with that method, route and status.
C2_CounterIsInitialPlusCompleted ==
  Idle => \A l \in LabelNames : counter[l] = 0 + Completed(l)

\* C3: whenever no callback is running, the counter and the histogram count
\* of (GET, /api/data, 200) equal the number of completed /api/data requests,
\* however the requests overlapped; and every /api/data request waiting for
\* its timer eventually completes.
C3_ConcurrentDataRequestsAllCounted ==
  /\ [](Idle => /\ counter[DataLabel] = Completed(DataLabel)
                /\ histogram[DataLabel].count = Completed(DataLabel))
  /\ \A r \in 1 .. MaxReq :
       [](Pc(r) = "timer" => <>(Done(r)))

\* two /api/data requests were in flight together and completed in the
\* opposite order of their arrival, and both were counted
C3_Witness ==
  /\ Idle
  /\ counter[DataLabel] = 2
  /\ histogram[DataLabel].count = 2
  /\ \E a, b \in Ids :
       /\ a < b
       /\ reqs[a].path = "/api/data" /\ reqs[b].path = "/api/data"
       /\ Done(a) /\ Done(b)
       /\ \E i, j \in 1 .. Len(wire) : i < j /\ wire[i].id = b /\ wire[j].id = a

\* C4: the response of a request is on the wire, with the status and body the
\* handler set, before logger.info is called; logger.info can run whether the
\* remote sink is reachable or not; and nothing but that one response ever
\* reaches the client.
C4_SinkFailureDoesNotTouchResponse ==
  /\ \A i \in 1 .. Len(wire) : wire[i].kind = "response"
  /\ \A r \in Ids :
       /\ reqs[r].pc = "log" => ENABLED SendLoggerInfo(r)
       /\ reqs[r].pc \in {"log", "inc", "return"} \/ (Done(r) /\ reqs[r].ret # NoRet) =>
            Responses(r) = <<[id |-> r, kind |-> "response",
                              status |-> DefaultStatus, body |-> reqs[r].arg]>>

\* a request was logged while the remote sink was unreachable, and its
\* response is the one the handler set
C4_Witness ==
  \E r \in Ids :
    /\ ~lokiUp
    /\ reqs[r].pc = "inc"
    /\ console[Len(console)] = LogRecord(r)
    /\ Responses(r) = <<[id |-> r, kind |-> "response", status |-> DefaultStatus,
                         body |-> Stringify([status |-> "ok"])]>>

\* C5: a call of the patched send passes the body it was given to the
\* original send exactly once: before that step the client has nothing, after
\* it exactly one response with res.statusCode and that body; and the call
\* returns the response object.
C5_MiddlewareDoesNotAlterResponse ==
  \A r \in Ids :
    /\ reqs[r].pc = "send" => Responses(r) = <<>>
    /\ OriginalCalled(r) =>
         /\ Len(Responses(r)) = 1
         /\ Responses(r)[1].status = reqs[r].statusCode
         /\ Responses(r)[1].body = reqs[r].arg
         /\ reqs[r].arg # NoBody
    /\ Done(r) /\ reqs[r].path # "/metrics" => reqs[r].ret = <<r>>

\* an /api/data request completed through the patched send
C5_Witness ==
  \E r \in Ids :
    /\ Done(r)
    /\ reqs[r].path = "/api/data"
    /\ reqs[r].ret = <<r>>
    /\ Responses(r) = <<[id |-> r, kind |-> "response", status |-> DefaultStatus,
                         body |-> reqs[r].arg]>>
    /\ reqs[r].arg[1] = "json"

\* C6: a /health request is answered in the callback it arrives in, and its
\* client receives exactly one response: status 200 and the JSON text of
\* {status: "ok"}.
C6_HealthAlwaysOk ==
  \A r \in Ids :
    reqs[r].path = "/health" =>
      /\ ~Done(r) => running = r
      /\ \A i \in 1 .. Len(wire) :
           wire[i].id = r =>
             wire[i] = [id |-> r, kind |-> "response", status |-> 200,
                        body |-> <<"json", [status |-> "ok"]>>]
      /\ Done(r) => Len(Responses(r)) = 1

\* a /health request was answered after an /api/data request had been served
C6_Witness ==
  \E r, e \in Ids :
    /\ e < r
    /\ reqs[e].path = "/api/data" /\ Done(e)
    /\ reqs[r].path = "/health" /\ Done(r)
    /\ Responses(r) = <<[id |-> r, kind |-> "response", status |-> 200,
                         body |-> <<"json", [status |-> "ok"]>>]>>

\* C7 as stated: the counter is incremented before the log record is
\* emitted, so there are never more "Request processed" records than
\* counter increments.
C7_CounterBeforeLog ==
  /\ TotalCounted <= TotalObserved
  /\ TotalLogged <= TotalCounted

\* C7 as amended: inside one call of the patched send the response is sent,
\* then the elapsed time is observed, then the record is logged, then the
\* counter is incremented; all of it is done when the call returns.
C7_SendObserveLogCount ==
  /\ TotalCounted <= TotalLogged
  /\ TotalLogged <= TotalObserved
  /\ TotalObserved <= TotalSent
  /\ TotalSent <= TotalCounted + 1
  /\ Idle => TotalCounted = TotalSent
  /\ \A r \in Ids :
       reqs[r].pc \in {"log", "inc", "return"} =>
         /\ running = r
         /\ reqs[r].responseTime <= now - reqs[r].start
         /\ histogram[LabelsOf(r)].sum >= reqs[r].responseTime

\* a call of the patched send has logged its record and not yet incremented
\* the counter
C7_Witness ==
  \E r \in Ids :
    /\ reqs[r].pc = "inc"
    /\ TotalLogged = TotalCounted + 1
    /\ TotalObserved = TotalLogged

\* C8: whenever no call of the patched send is in progress, each label triple
\* has as many histogram observations as counter increments as log records,
\* namely one per request of that triple whose response was finalized; and
\* in every state none of the three exceeds that number.
C8_NoPartialUpdates ==
  \A l \in LabelNames :
    /\ histogram[l].count <= Finalized(l)
    /\ counter[l] <= Finalized(l)
    /\ LogCount(l) <= Finalized(l)
    /\ Idle => /\ histogram[l].count = Finalized(l)
               /\ counter[l] = Finalized(l)
               /\ LogCount(l) = Finalized(l)

\* one request was finalized and fully recorded while another, not yet
\* finalized, is waiting
C8_Witness ==
  /\ Idle
  /\ \E a, b \in Ids :
       /\ Done(a) /\ counter[LabelsOf(a)] = 1 /\ LogCount(LabelsOf(a)) = 1
       /\ histogram[LabelsOf(a)].count = 1
       /\ reqs[b].pc = "timer" /\ LabelsOf(b) # LabelsOf(a)
       /\ counter[LabelsOf(b)] = 0

\* C9: a request waiting for its timer does not hold the event loop, so a
\* /health request can be dispatched whenever the loop is idle, and it runs
\* to completion without waiting; an /api/data request completes no earlier
\* than its delay, and every waiting one eventually completes.
C9_DelayDoesNotBlock ==
  /\ [](\A r \in Ids : reqs[r].pc \in {"timer", "await"} => running # r)
  /\ [](Idle /\ Len(reqs) < MaxReq => ENABLED Health("GET"))
  /\ [](\A r \in Ids : reqs[r].path = "/api/data" /\ Done(r) =>
                          reqs[r].responseTime >= reqs[r].delay)
  /\ \A r \in 1 .. MaxReq :
       /\ [](Pc(r) = "timer" => <>(Done(r)))
       /\ [](Path(r) = "/health" => <>(Done(r)))

\* a /health request that arrived after an /api/data request has completed
\* while that request is still waiting for its timer
C9_Witness ==
  \E d, h \in Ids :
    /\ d < h
    /\ reqs[d].path = "/api/data" /\ reqs[d].pc = "timer"
    /\ reqs[h].path = "/health" /\ Done(h)
    /\ Len(Responses(h)) = 1

=============================================================================
